---- MODULE Spec2Model ----
(***************************************************************************)
(* Model of GoogleSearchScraper (src/Google_Search.py).                    *)
(*                                                                         *)
(*  - search_google: the result-node loop with its three selector cascades *)
(*    (title, url, snippet), the validation and the exclusion filter.      *)
(*  - extract_page_content / scrape_search_results: one task per search    *)
(*    result, admitted by an asyncio.Semaphore, gathered with              *)
(*    return_exceptions=True and merged by index.                          *)
(*                                                                         *)
(* Python strings that the code inspects character by character (hrefs,    *)
(* titles, snippets) are sequences of one-character strings.  Python's     *)
(* None / value is the sequence <<>> / <<value>>.                          *)
(***************************************************************************)
EXTENDS Integers, Sequences, FiniteSets, TLC

VARIABLES
    \* ---- search_google ----
    doc,            \* the rendered search page: [container, lists]
    max_results,    \* argument of search_google
    spc,            \* position inside search_google
    idx,            \* number of raw nodes the loop has consumed
    results,        \* the list `results` of search_google
    locals,         \* title / url / snippet resolved for the node last examined
    \* ---- cascade harness ----
    cin,            \* [kind, cands]: a cascade and its candidates' matches
    cout,           \* the value the cascade resolved, None before it ran
    \* ---- scrape_search_results / extract_page_content ----
    max_concurrent_pages,   \* constructor argument
    semaphore,      \* value of self.semaphore (free slots)
    search_results, \* argument of scrape_search_results
    site,           \* per task: how the page it visits behaves
    mpc,            \* position inside scrape_search_results
    pc,             \* per task: position inside extract_page_content
    content_data,   \* per task: its content_data dict
    ran,            \* per task: the steps it has executed so far
    task_result,    \* per task: what the task finished with
    done_order,     \* the tasks in the order they finished
    open_pages,     \* tasks whose page is open
    combined_results, \* the list scrape_search_results returns
    \* ---- run_search_and_scrape, repeated calls ----
    rpc,            \* position inside run_search_and_scrape
    prev            \* exit and result of an earlier search_google call, or None

searchVars == <<doc, max_results, spc, idx, results, locals>>
cascVars == <<cin, cout>>
scrapeVars ==
    <<max_concurrent_pages, semaphore, search_results, site, mpc, pc, content_data, ran,
      task_result, done_order, open_pages, combined_results>>
runVars == <<rpc, prev>>
vars ==
    <<doc, max_results, spc, idx, results, locals, cin, cout,
      max_concurrent_pages, semaphore, search_results, site, mpc, pc, content_data, ran,
      task_result, done_order, open_pages, combined_results, rpc, prev>>

(* Bounds *)
MaxNodes == 3          \* raw result nodes on the search page
MaxResultsArg == 3     \* largest max_results tried
MaxK == 2              \* search results handed to scrape_search_results
MaxN == 2              \* largest max_concurrent_pages tried

(* Python values *)
None == <<>>
Some(v) == <<v>>

Min(a, b) == IF a <= b THEN a ELSE b

WhiteSpace == {" ", "\t", "\n"}

RECURSIVE LStrip(_)
LStrip(s) == IF s # <<>> /\ Head(s) \in WhiteSpace THEN LStrip(Tail(s)) ELSE s

RECURSIVE RStrip(_)
RStrip(s) ==
    IF s # <<>> /\ s[Len(s)] \in WhiteSpace THEN RStrip(SubSeq(s, 1, Len(s) - 1)) ELSE s

\* str.strip()
Strip(s) == RStrip(LStrip(s))

\* str.startswith(p)
StartsWith(s, p) == Len(s) >= Len(p) /\ SubSeq(s, 1, Len(p)) = p

\* `p in s` for strings
Contains(s, p) == \E k \in 1..(Len(s) - Len(p) + 1) : SubSeq(s, k, k + Len(p) - 1) = p

\* Python truthiness of an Optional[str]
Truthy(v) == v # None /\ Len(v[1]) > 0

\* index of the first character of s that lies in set cs, Len(s)+1 when none
RECURSIVE FindFirst(_, _, _)
FindFirst(s, cs, k) ==
    IF k > Len(s) THEN Len(s) + 1
    ELSE IF s[k] \in cs THEN k ELSE FindFirst(s, cs, k + 1)

SchemeChars ==
    {"a", "b", "c", "d", "e", "f", "g", "h", "i", "j", "k", "l", "m", "n", "o", "p", "q",
     "r", "s", "t", "u", "v", "w", "x", "y", "z", "+", "-", "."}

\* urllib.parse.urlsplit: the scheme is the text before the first ':' when it
\* is made of scheme characters only; "" otherwise
UrlScheme(u) ==
    LET i == FindFirst(u, {":"}, 1)
    IN  IF i > 1 /\ i <= Len(u) /\ (\A k \in 1..(i - 1) : u[k] \in SchemeChars)
        THEN SubSeq(u, 1, i - 1) ELSE <<>>

\* urlparse(url).netloc: what follows "//" after the scheme, up to the next
\* '/', '?' or '#'; "" when the rest does not start with "//"
Netloc(u) ==
    LET sch == UrlScheme(u)
        rest == IF sch = <<>> THEN u ELSE SubSeq(u, Len(sch) + 2, Len(u))
    IN  IF StartsWith(rest, <<"/", "/">>)
        THEN SubSeq(rest, 3, FindFirst(rest, {"/", "?", "#"}, 3) - 1)
        ELSE <<>>

(* search_google: selector cascades *)

S_http == <<"h", "t", "t", "p">>
S_https == <<"h", "t", "t", "p", "s">>

title_selectors == <<"h3", "h2", ".LC20lb", ".DKV0Md">>
link_selectors == <<"a[href]", "[href]">>
snippet_selectors == <<".VwiC3b", ".s3v9rd", ".st", "[data-sncf=\"1\"]", ".IsZvec", ".aCOpRe">>

\* What one selector yields on a node: n = locator(sel).count(), val = the
\* text_content() / get_attribute('href') of locator(sel).first
NoMatch == [n |-> 0, val |-> None]
Match(v) == [n |-> 1, val |-> v]

\* the `if ...: break` test of a cascade
BreakTest(kind, v) ==
    IF kind = "url" THEN v # None /\ Len(v[1]) > 0 /\ StartsWith(v[1], S_http)
    ELSE v # None /\ Len(v[1]) > 0 /\ Len(Strip(v[1])) > 0

\* for sel in selectors: if count() > 0: value = first...; if test: break
RECURSIVE CascadeFromNoBreak(_, _, _, _)
CascadeFromNoBreak(kind, cands, k, cur) ==
    IF k > Len(cands) THEN cur
    ELSE IF cands[k].n > 0
         THEN CascadeFromNoBreak(kind, cands, k + 1, cands[k].val)
         ELSE CascadeFromNoBreak(kind, cands, k + 1, cur)

RECURSIVE CascadeFrom(_, _, _, _)
CascadeFrom(kind, cands, k, cur) ==
    IF k > Len(cands) THEN cur
    ELSE IF cands[k].n > 0
         THEN IF BreakTest(kind, cands[k].val) THEN cands[k].val
              ELSE CascadeFrom(kind, cands, k + 1, cands[k].val)
         ELSE CascadeFrom(kind, cands, k + 1, cur)

\* the variable starts as ""
Cascade(kind, cands) == CascadeFrom(kind, cands, 1, Some(<<>>))


(* search_google: the page *)

U_ok == <<"h", "t", "t", "p", "s", ":", "/", "/", "a", ".", "i", "o", "/", "p">>
U_ok2 == <<"h", "t", "t", "p", ":", "/", "/", "b", ".", "i", "o">>
U_google == <<"h", "t", "t", "p", "s", ":", "/", "/", "w", "w", "w", ".", "g", "o", "o", "g", "l", "e", ".", "c", "o", "m", "/", "x">>
U_query == <<"h", "t", "t", "p", "s", ":", "/", "/", "a", ".", "i", "o", "/", "?", "q", "=", "g", "o", "o", "g", "l", "e", ".", "c", "o", "m">>
U_rel == <<"/", "u", "r", "l", "?", "q", "=", "x">>
U_httprel == <<"h", "t", "t", "p", ".", "h", "t", "m", "l">>

T_A == <<"A">>
T_B == <<" ", "B", " ">>
T_blank == <<" ", "\n">>

\* a result node: what each selector of each cascade yields on it, and whether
\* a locator call on it raises
Node(raises, title, link, snippet) ==
    [raises |-> raises, title |-> title, link |-> link, snippet |-> snippet]

NoSnippet == <<NoMatch, NoMatch, NoMatch, NoMatch, NoMatch, NoMatch>>
OneSnippet(v) == <<Match(v), NoMatch, NoMatch, NoMatch, NoMatch, NoMatch>>
OneTitle(v) == <<Match(v), NoMatch, NoMatch, NoMatch>>
OneLink(u) == <<Match(Some(u)), Match(Some(u))>>

NodeGoodA == Node(FALSE, OneTitle(Some(T_A)), OneLink(U_ok), OneSnippet(Some(<<"s", " ">>)))
NodeGoodB ==
    Node(FALSE, <<Match(Some(T_blank)), Match(Some(T_B)), Match(Some(T_A)), NoMatch>>,
         <<Match(Some(U_rel)), Match(Some(U_ok2))>>, NoSnippet)
NodeGoogle == Node(FALSE, OneTitle(Some(T_A)), OneLink(U_google), OneSnippet(Some(<<"s">>)))
NodeQuery == Node(FALSE, OneTitle(Some(T_A)), OneLink(U_query), OneSnippet(Some(<<"s">>)))
NodeBlankTitle == Node(FALSE, OneTitle(Some(T_blank)), OneLink(U_ok), OneSnippet(Some(<<"s">>)))
NodeNoTitle == Node(FALSE, <<NoMatch, Match(None), NoMatch, NoMatch>>, OneLink(U_ok), NoSnippet)
NodeRelLink == Node(FALSE, OneTitle(Some(T_A)), OneLink(U_rel), OneSnippet(Some(T_blank)))
NodeHttpRel == Node(FALSE, OneTitle(Some(T_B)), OneLink(U_httprel), OneSnippet(Some(<<"s">>)))
NodeRaises == Node(TRUE, OneTitle(Some(T_A)), OneLink(U_ok), NoSnippet)
NodeBlankSnippet == Node(FALSE, OneTitle(Some(T_A)), OneLink(U_ok2), OneSnippet(Some(T_blank)))

NodeKinds ==
    {NodeGoodA, NodeGoodB, NodeGoogle, NodeQuery, NodeBlankTitle, NodeNoTitle,
     NodeRelLink, NodeHttpRel, NodeRaises, NodeBlankSnippet}

SeqsUpTo(S, n) == UNION {[1..m -> S] : m \in 0..n}

search_result_selectors == <<".g", ".MjjYud", "[data-sokoban-container] .g", ".hlcw0c", "[jscontroller] .g">>

\* for selector in search_result_selectors: search_results = locator.all();
\* if search_results: break
RECURSIVE FirstNonEmpty(_, _)
FirstNonEmpty(lists, k) ==
    IF k > Len(lists) THEN <<>>
    ELSE IF lists[k] # <<>> THEN lists[k] ELSE FirstNonEmpty(lists, k + 1)

RawNodes(d) == FirstNonEmpty(d.lists, 1)

\* search_results[:max_results]
ExaminedUncapped(nodes, cap) == nodes
Examined(nodes, cap) == SubSeq(nodes, 1, Min(cap, Len(nodes)))

Exclusions ==
    {<<"g", "o", "o", "g", "l", "e", ".", "c", "o", "m">>,
     <<"y", "o", "u", "t", "u", "b", "e", ".", "c", "o", "m", "/", "r", "e", "s", "u", "l", "t", "s">>,
     <<"g", "o", "o", "g", "l", "e", "a", "d", "s", "e", "r", "v", "i", "c", "e", "s">>}

\* if not title or not url or not url.startswith('http'): continue
Incomplete(title, url) ==
    ~Truthy(title) \/ ~Truthy(url) \/ ~StartsWith(url[1], S_http)

\* if any(domain in url for domain in [...]): continue
Excluded(url) == \E x \in Exclusions : Contains(url[1], x)

Placeholder ==
    <<"N", "o", " ", "d", "e", "s", "c", "r", "i", "p", "t", "i", "o", "n", " ",
      "a", "v", "a", "i", "l", "a", "b", "l", "e">>

query == "q"

\* 'position': len(results) + 1
NextPositionRawIndex(res, i) == i + 1
NextPosition(res, i) == Len(res) + 1

SearchRecord(res, i, title, url, snippet) ==
    [position |-> NextPosition(res, i),
     title |-> Strip(title[1]),
     url |-> url[1],
     snippet |-> IF Truthy(snippet) THEN Strip(snippet[1]) ELSE Placeholder,
     domain |-> Netloc(url[1]),
     search_query |-> query]

NoLocals == [raised |-> FALSE, title |-> None, url |-> None, snippet |-> None]

\* the body of the try of one loop iteration, on node number i+1
Resolve(node) ==
    [raised |-> FALSE,
     title |-> Cascade("title", node.title),
     url |-> Cascade("url", node.link),
     snippet |-> Cascade("snippet", node.snippet)]

\* does the iteration append a record
Accepted(l) == ~l.raised /\ ~Incomplete(l.title, l.url) /\ ~Excluded(l.url)

(* search_google: the steps *)

\* page.goto(search_url): navigation may raise, which the outer except
\* catches; results is still empty
SearchGoto ==
    /\ spc = "goto"
    /\ \E ok \in BOOLEAN : spc' = IF ok THEN "container" ELSE "caught"
    /\ UNCHANGED <<doc, max_results, idx, results, locals, cascVars, scrapeVars, runVars>>

\* wait_for_selector over result_selectors; `return results` when none matched
SearchContainer ==
    /\ spc = "container"
    /\ spc' = IF doc.container THEN "nodes" ELSE "no_container"
    /\ UNCHANGED <<doc, max_results, idx, results, locals, cascVars, scrapeVars, runVars>>

\* locator(selector).all() over search_result_selectors; `return results`
\* when every list is empty
SearchNodes ==
    /\ spc = "nodes"
    /\ spc' = IF RawNodes(doc) # <<>> THEN "loop" ELSE "no_nodes"
    /\ UNCHANGED <<doc, max_results, idx, results, locals, cascVars, scrapeVars, runVars>>

\* one iteration of `for i, result in enumerate(search_results[:max_results])`
SearchProcessAbortOnError ==
    /\ spc = "loop"
    /\ idx < Len(Examined(RawNodes(doc), max_results))
    /\ LET node == Examined(RawNodes(doc), max_results)[idx + 1]
           l == IF node.raises THEN [NoLocals EXCEPT !.raised = TRUE] ELSE Resolve(node)
       IN  /\ locals' = l
           /\ results' = IF Accepted(l)
                         THEN Append(results, SearchRecord(results, idx, l.title, l.url, l.snippet))
                         ELSE results
           /\ spc' = IF node.raises THEN "caught" ELSE spc
    /\ idx' = idx + 1
    /\ UNCHANGED <<doc, max_results, cascVars, scrapeVars, runVars>>

SearchProcess ==
    /\ spc = "loop"
    /\ idx < Len(Examined(RawNodes(doc), max_results))
    /\ LET node == Examined(RawNodes(doc), max_results)[idx + 1]
           l == IF node.raises THEN [NoLocals EXCEPT !.raised = TRUE] ELSE Resolve(node)
       IN  /\ locals' = l
           /\ results' = IF Accepted(l)
                         THEN Append(results, SearchRecord(results, idx, l.title, l.url, l.snippet))
                         ELSE results
    /\ idx' = idx + 1
    /\ UNCHANGED <<doc, max_results, spc, cascVars, scrapeVars, runVars>>

\* the loop is exhausted: page.close(); return results
SearchReturn ==
    /\ spc = "loop"
    /\ idx = Len(Examined(RawNodes(doc), max_results))
    /\ spc' = "done"
    /\ UNCHANGED <<doc, max_results, idx, results, locals, cascVars, scrapeVars, runVars>>

\* search_google called on its own, for the first time
RunIdle == rpc = "idle" /\ prev = None

\* scrape_search_results not running
ScrapeIdle ==
    /\ max_concurrent_pages = 1
    /\ semaphore = 1
    /\ search_results = <<>>
    /\ site = <<>>
    /\ mpc = "idle"
    /\ pc = <<>>
    /\ content_data = <<>>
    /\ ran = <<>>
    /\ task_result = <<>>
    /\ done_order = <<>>
    /\ open_pages = {}
    /\ combined_results = <<>>

CascIdle == cin = [kind |-> "title", cands |-> <<>>] /\ cout = None

InitSearch ==
    /\ \E c \in BOOLEAN, l1 \in SeqsUpTo(NodeKinds, MaxNodes), l2 \in {<<>>, <<NodeGoodA, NodeGoogle>>} :
          /\ l1 = <<>> \/ l2 = <<>>
          /\ doc = [container |-> c, lists |-> <<l1, l2, <<>>, <<>>, <<>>>>]
    /\ max_results \in 0..MaxResultsArg
    /\ spc = "goto"
    /\ idx = 0
    /\ results = <<>>
    /\ locals = NoLocals
    /\ CascIdle
    /\ ScrapeIdle
    /\ RunIdle

NextSearch == SearchGoto \/ SearchContainer \/ SearchNodes \/ SearchProcess \/ SearchReturn

SpecSearch == InitSearch /\ [][NextSearch]_vars

(* run_search_and_scrape, from the call of search_google on *)

SearchExited == spc \in {"caught", "no_container", "no_nodes", "done"}

\* `if not search_results:`
NoSearchResultsNever(res) == FALSE
NoSearchResults(res) == res = <<>>

\* search_results = await self.search_google(query, max_results) has returned:
\* on an empty list warn and return, else enter scrape_search_results
RunAfterSearch ==
    /\ rpc = "search"
    /\ SearchExited
    /\ rpc' = IF NoSearchResults(results) THEN "cleanup" ELSE "scrape"
    /\ UNCHANGED <<prev, searchVars, cascVars, scrapeVars>>

\* finally: await self.cleanup(), after the early return
RunCleanup ==
    /\ rpc = "cleanup"
    /\ rpc' = "finished"
    /\ UNCHANGED <<prev, searchVars, cascVars, scrapeVars>>

InitRun ==
    /\ \E c \in BOOLEAN, l1 \in SeqsUpTo(NodeKinds, MaxNodes), l2 \in {<<>>, <<NodeGoodA, NodeGoogle>>} :
          /\ l1 = <<>> \/ l2 = <<>>
          /\ doc = [container |-> c, lists |-> <<l1, l2, <<>>, <<>>, <<>>>>]
    /\ max_results \in 0..MaxResultsArg
    /\ spc = "goto"
    /\ idx = 0
    /\ results = <<>>
    /\ locals = NoLocals
    /\ CascIdle
    /\ ScrapeIdle
    /\ rpc = "search"
    /\ prev = None

NextRun == NextSearch \/ RunAfterSearch \/ RunCleanup

SpecRun == InitRun /\ [][NextRun]_vars

(* search_google called a second time on the same document *)

\* results = [] at the entry of search_google
ResultsKept(old) == old
FreshResults(old) == <<>>

\* a further call search_google(query, max_results): new page, new locals
SearchAgain ==
    /\ rpc = "idle"
    /\ prev = None
    /\ SearchExited
    /\ prev' = Some([exit |-> spc, results |-> results])
    /\ spc' = "goto"
    /\ idx' = 0
    /\ results' = FreshResults(results)
    /\ locals' = NoLocals
    /\ UNCHANGED <<doc, max_results, rpc, cascVars, scrapeVars>>

NextSearchTwice == NextSearch \/ SearchAgain

SpecSearchTwice == InitSearch /\ [][NextSearchTwice]_vars

(* the cascades on their own *)

CascadeSelectors(kind) ==
    IF kind = "title" THEN title_selectors
    ELSE IF kind = "url" THEN link_selectors ELSE snippet_selectors

TextMatches == {NoMatch, Match(None), Match(Some(T_blank)), Match(Some(T_A)), Match(Some(T_B))}
SnippetMatches == {NoMatch, Match(Some(T_blank)), Match(Some(T_A)), Match(Some(T_B))}
LinkMatches ==
    {NoMatch, Match(None), Match(Some(<<>>)), Match(Some(U_rel)), Match(Some(U_ok)),
     Match(Some(U_ok2)), Match(Some(U_httprel))}

CandidateValues(kind) ==
    IF kind = "title" THEN TextMatches
    ELSE IF kind = "url" THEN LinkMatches ELSE SnippetMatches

CascadeResolve ==
    /\ cout = None
    /\ cin.cands # <<>>
    /\ cout' = Some(Cascade(cin.kind, cin.cands))
    /\ UNCHANGED <<cin, searchVars, scrapeVars, runVars>>

SearchIdle ==
    /\ doc = [container |-> FALSE, lists |-> <<<<>>, <<>>, <<>>, <<>>, <<>>>>]
    /\ max_results = 0
    /\ spc = "idle"
    /\ idx = 0
    /\ results = <<>>
    /\ locals = NoLocals

InitCascade ==
    /\ \E kind \in {"title", "url", "snippet"} :
          \E cands \in [1..Len(CascadeSelectors(kind)) -> CandidateValues(kind)] :
              cin = [kind |-> kind, cands |-> cands]
    /\ cout = None
    /\ SearchIdle
    /\ ScrapeIdle
    /\ RunIdle

NextCascade == CascadeResolve

SpecCascade == InitCascade /\ [][NextCascade]_vars

(* extract_page_content: the texts of a page *)

\* A text of the visited page: `lead` blanks, then `words` words of `wlen`
\* characters each, separated by `gap` blanks, then `trail` blanks.  `id`
\* tells the texts of different elements apart.
Text(id, lead, words, wlen, gap, trail) ==
    [id |-> id, lead |-> lead, words |-> words, wlen |-> wlen, gap |-> gap, trail |-> trail]

\* ''
EmptyText == Text("", 0, 0, 0, 0, 0)

\* len(text) / text.length
TextLen(t) ==
    t.lead + t.words * t.wlen + (IF t.words > 1 THEN (t.words - 1) * t.gap ELSE 0) + t.trail

\* text.strip()
StripText(t) == IF t.words = 0 THEN EmptyText ELSE [t EXCEPT !.lead = 0, !.trail = 0]

\* len(text.split())
SplitCount(t) == t.words

\* text[:n] of a stripped text; texts longer than n are single words here
Prefix(t, n) == IF TextLen(t) <= n THEN t ELSE [t EXCEPT !.wlen = n]

main_selectors ==
    <<"main", "article", ".content", ".post", ".article-body", ".entry-content", ".post-content">>

\* element && element.innerText.length > 200
RegionQualifiesAtLeast(r) == r # None /\ TextLen(r[1]) >= 200
RegionQualifies(r) == r # None /\ TextLen(r[1]) > 200

\* the page.evaluate script: the first main-content region that qualifies,
\* else document.body.innerText || ''
RECURSIVE MainContentFrom(_, _, _)
MainContentFrom(regions, body, k) ==
    IF k > Len(regions) THEN (IF TextLen(body) > 0 THEN body ELSE EmptyText)
    ELSE IF RegionQualifies(regions[k]) THEN regions[k][1]
         ELSE MainContentFrom(regions, body, k + 1)

MainContent(regions, body) == MainContentFrom(regions, body, 1)

\* max(1, words // 200)
ReadingTimeFloorOnly(words) == words \div 200
ReadingTime(words) == IF words \div 200 >= 1 THEN words \div 200 ELSE 1

(* extract_page_content: how a visited page behaves *)

GotoRaises(msg) == [kind |-> "raise", msg |-> msg, status |-> 0]
GotoNoResponse == [kind |-> "none", msg |-> "", status |-> 0]
GotoStatus(st) == [kind |-> "status", msg |-> "", status |-> st]

NoRegions == <<None, None, None, None, None, None, None>>

Heading(raises, level, text) == [raises |-> raises, level |-> level, text |-> text]

\* new_page / close: None, or Some(message) of the exception raised
\* evaluate: raises (as above), the main-content regions and the body text
\* meta, headings: whether the locator call raises, and what it yields
SiteOk ==
    [new_page |-> None,
     goto |-> GotoStatus(200),
     settle_timeout |-> FALSE,
     evaluate |-> [raises |-> None, regions |-> NoRegions, body |-> Text("body", 1, 2, 3, 1, 1)],
     meta |-> [raises |-> FALSE, content |-> Some("about")],
     headings |-> [raises |-> FALSE, items |-> <<Heading(FALSE, "h1", Some(Text("h", 1, 1, 4, 0, 0)))>>],
     close |-> None]

SiteHttp404 == [SiteOk EXCEPT !.goto = GotoStatus(404)]
SiteHttp400 == [SiteOk EXCEPT !.goto = GotoStatus(400)]
SiteNavFails == [SiteOk EXCEPT !.goto = GotoRaises("Timeout 30000ms exceeded")]
SiteNoPage == [SiteOk EXCEPT !.new_page = Some("")]
SiteCloseFails == [SiteOk EXCEPT !.close = Some("Target closed")]
SiteEvalFails == [SiteOk EXCEPT !.evaluate.raises = Some("Execution context was destroyed")]
SiteDegraded ==
    [SiteOk EXCEPT !.goto = GotoNoResponse,
                   !.settle_timeout = TRUE,
                   !.evaluate.body = EmptyText,
                   !.meta = [raises |-> TRUE, content |-> None],
                   !.headings = [raises |-> TRUE, items |-> <<>>]]

ScrapeSites ==
    {SiteOk, SiteHttp404, SiteHttp400, SiteNavFails, SiteNoPage, SiteCloseFails,
     SiteEvalFails, SiteDegraded}

\* the i-th record search_google handed over (url and title are only copied
\* and formatted from here on, so they are plain strings)
SampleResult(i) ==
    [position |-> i,
     title |-> "Title " \o ToString(i),
     url |-> "https://site" \o ToString(i) \o ".io/",
     snippet |-> "snippet",
     domain |-> "site" \o ToString(i) \o ".io",
     search_query |-> query]

(* extract_page_content *)

Tasks == 1..Len(search_results)

\* content_data = {...}
NewContentData(url, title) ==
    [url |-> url,
     title |-> title,
     content |-> "",
     text_content |-> EmptyText,
     meta_description |-> "",
     headings |-> <<>>,
     links |-> <<>>,
     images |-> <<>>,
     status_code |-> None,
     error |-> None,
     scraped_at |-> "now",
     word_count |-> 0,
     reading_time |-> 0]

Pending == [kind |-> "pending"]
Returned(cd) == [kind |-> "value", value |-> cd]
Raised(msg) == [kind |-> "exception", msg |-> msg]

\* asyncio.Semaphore.acquire proceeds only while the value is positive
CanAcquireAlways(value) == TRUE
CanAcquire(value) == value > 0

\* response.status >= 400
IsHttpErrorAbove(status) == status > 400
IsHttpError(status) == status >= 400

\* async with self.semaphore: (entry)
Acquire(i) ==
    /\ mpc = "gather"
    /\ pc[i] = "wait"
    /\ CanAcquire(semaphore)
    /\ semaphore' = semaphore - 1
    /\ pc' = [pc EXCEPT ![i] = "new_page"]
    /\ UNCHANGED <<max_concurrent_pages, search_results, site, mpc, content_data, ran,
                   task_result, done_order, open_pages, combined_results>>
    /\ UNCHANGED <<searchVars, cascVars, runVars>>

\* page = await self.context.new_page(), outside the try: an exception leaves
\* the coroutine through the `async with`, which releases the slot
NewPage(i) ==
    /\ mpc = "gather"
    /\ pc[i] = "new_page"
    /\ ran' = [ran EXCEPT ![i] = @ \cup {"new_page"}]
    /\ IF site[i].new_page = None
       THEN /\ pc' = [pc EXCEPT ![i] = "goto"]
            /\ open_pages' = open_pages \cup {i}
            /\ content_data' = [content_data EXCEPT
                                  ![i] = NewContentData(search_results[i].url, search_results[i].title)]
            /\ UNCHANGED <<semaphore, task_result, done_order>>
       ELSE /\ pc' = [pc EXCEPT ![i] = "raised"]
            /\ task_result' = [task_result EXCEPT ![i] = Raised(site[i].new_page[1])]
            /\ done_order' = Append(done_order, i)
            /\ semaphore' = semaphore + 1
            /\ UNCHANGED <<open_pages, content_data>>
    /\ UNCHANGED <<max_concurrent_pages, search_results, site, mpc, combined_results>>
    /\ UNCHANGED <<searchVars, cascVars, runVars>>

GotoNoReturnOnFailure(i) ==
    /\ mpc = "gather"
    /\ pc[i] = "goto"
    /\ ran' = [ran EXCEPT ![i] = @ \cup {"goto"}]
    /\ LET g == site[i].goto
       IN  IF g.kind = "raise"
           THEN /\ content_data' = [content_data EXCEPT
                                      ![i].error = Some("Navigation failed: " \o g.msg)]
                /\ pc' = [pc EXCEPT ![i] = "delay"]
           ELSE IF g.kind = "none"
           THEN /\ content_data' = [content_data EXCEPT ![i].status_code = None]
                /\ pc' = [pc EXCEPT ![i] = "delay"]
           ELSE IF IsHttpError(g.status)
           THEN /\ content_data' = [content_data EXCEPT
                                      ![i].status_code = Some(g.status),
                                      ![i].error = Some("HTTP " \o ToString(g.status))]
                /\ pc' = [pc EXCEPT ![i] = "close"]
           ELSE /\ content_data' = [content_data EXCEPT ![i].status_code = Some(g.status)]
                /\ pc' = [pc EXCEPT ![i] = "delay"]
    /\ UNCHANGED <<max_concurrent_pages, semaphore, search_results, site, mpc, task_result,
                   done_order, open_pages, combined_results>>
    /\ UNCHANGED <<searchVars, cascVars, runVars>>

\* response = await page.goto(...): the inner try / except nav_error and the
\* early return on an HTTP error status
Goto(i) ==
    /\ mpc = "gather"
    /\ pc[i] = "goto"
    /\ ran' = [ran EXCEPT ![i] = @ \cup {"goto"}]
    /\ LET g == site[i].goto
       IN  IF g.kind = "raise"
           THEN /\ content_data' = [content_data EXCEPT
                                      ![i].error = Some("Navigation failed: " \o g.msg)]
                /\ pc' = [pc EXCEPT ![i] = "close"]
           ELSE IF g.kind = "none"
           THEN /\ content_data' = [content_data EXCEPT ![i].status_code = None]
                /\ pc' = [pc EXCEPT ![i] = "delay"]
           ELSE IF IsHttpError(g.status)
           THEN /\ content_data' = [content_data EXCEPT
                                      ![i].status_code = Some(g.status),
                                      ![i].error = Some("HTTP " \o ToString(g.status))]
                /\ pc' = [pc EXCEPT ![i] = "close"]
           ELSE /\ content_data' = [content_data EXCEPT ![i].status_code = Some(g.status)]
                /\ pc' = [pc EXCEPT ![i] = "delay"]
    /\ UNCHANGED <<max_concurrent_pages, semaphore, search_results, site, mpc, task_result,
                   done_order, open_pages, combined_results>>
    /\ UNCHANGED <<searchVars, cascVars, runVars>>

\* await self.human_like_delay()
Delay(i) ==
    /\ mpc = "gather"
    /\ pc[i] = "delay"
    /\ ran' = [ran EXCEPT ![i] = @ \cup {"delay"}]
    /\ pc' = [pc EXCEPT ![i] = "settle"]
    /\ UNCHANGED <<max_concurrent_pages, semaphore, search_results, site, mpc, content_data,
                   task_result, done_order, open_pages, combined_results>>
    /\ UNCHANGED <<searchVars, cascVars, runVars>>

\* await page.wait_for_load_state('networkidle', timeout=15000), a timeout is
\* swallowed
Settle(i) ==
    /\ mpc = "gather"
    /\ pc[i] = "settle"
    /\ ran' = [ran EXCEPT ![i] = @ \cup (IF site[i].settle_timeout
                                          THEN {"settle", "settle_timeout"} ELSE {"settle"})]
    /\ pc' = [pc EXCEPT ![i] = "text"]
    /\ UNCHANGED <<max_concurrent_pages, semaphore, search_results, site, mpc, content_data,
                   task_result, done_order, open_pages, combined_results>>
    /\ UNCHANGED <<searchVars, cascVars, runVars>>

\* text_content = await page.evaluate(...), then the metrics; an exception
\* goes to the outer except
ExtractText(i) ==
    /\ mpc = "gather"
    /\ pc[i] = "text"
    /\ ran' = [ran EXCEPT ![i] = @ \cup {"text"}]
    /\ LET ev == site[i].evaluate
           text == MainContent(ev.regions, ev.body)
           stripped == IF TextLen(text) > 0 THEN StripText(text) ELSE EmptyText
           words == SplitCount(stripped)
       IN  IF ev.raises # None
           THEN /\ content_data' = [content_data EXCEPT
                                      ![i].error = Some("Error extracting content from "
                                                        \o content_data[i].url \o ": " \o ev.raises[1])]
                /\ pc' = [pc EXCEPT ![i] = "close"]
           ELSE /\ content_data' = [content_data EXCEPT
                                      ![i].text_content = stripped,
                                      ![i].word_count = IF TextLen(stripped) > 0 THEN words ELSE @,
                                      ![i].reading_time =
                                          IF TextLen(stripped) > 0 THEN ReadingTime(words) ELSE @]
                /\ pc' = [pc EXCEPT ![i] = "meta"]
    /\ UNCHANGED <<max_concurrent_pages, semaphore, search_results, site, mpc, task_result,
                   done_order, open_pages, combined_results>>
    /\ UNCHANGED <<searchVars, cascVars, runVars>>

\* meta_desc = await page.locator('meta[name="description"]').get_attribute(..)
ExtractMeta(i) ==
    /\ mpc = "gather"
    /\ pc[i] = "meta"
    /\ LET m == site[i].meta
       IN  IF m.raises
           THEN /\ ran' = [ran EXCEPT ![i] = @ \cup {"meta", "meta_failed"}]
                /\ UNCHANGED content_data
           ELSE /\ ran' = [ran EXCEPT ![i] = @ \cup {"meta"}]
                /\ content_data' = [content_data EXCEPT
                                      ![i].meta_description =
                                          IF m.content # None /\ m.content[1] # ""
                                          THEN m.content[1] ELSE ""]
    /\ pc' = [pc EXCEPT ![i] = "headings"]
    /\ UNCHANGED <<max_concurrent_pages, semaphore, search_results, site, mpc, task_result,
                   done_order, open_pages, combined_results>>
    /\ UNCHANGED <<searchVars, cascVars, runVars>>

\* for heading in headings[:20]: ... append {level, text.strip()[:200]}
RECURSIVE CollectHeadingsStopAtError(_, _, _)
CollectHeadingsStopAtError(items, k, acc) ==
    IF k > Len(items) \/ k > 20 THEN acc
    ELSE LET h == items[k]
             keep == h.text # None /\ TextLen(h.text[1]) > 0
                     /\ TextLen(StripText(h.text[1])) > 0
         IN  IF h.raises THEN acc
             ELSE CollectHeadingsStopAtError(items, k + 1,
                      IF keep
                      THEN Append(acc, [level |-> h.level, text |-> Prefix(StripText(h.text[1]), 200)])
                      ELSE acc)

RECURSIVE CollectHeadings(_, _, _)
CollectHeadings(items, k, acc) ==
    IF k > Len(items) \/ k > 20 THEN acc
    ELSE LET h == items[k]
             keep == ~h.raises /\ h.text # None /\ TextLen(h.text[1]) > 0
                     /\ TextLen(StripText(h.text[1])) > 0
         IN  CollectHeadings(items, k + 1,
                 IF keep
                 THEN Append(acc, [level |-> h.level, text |-> Prefix(StripText(h.text[1]), 200)])
                 ELSE acc)

\* headings = await page.locator('h1, h2, h3, h4, h5, h6').all() and the loop
ExtractHeadings(i) ==
    /\ mpc = "gather"
    /\ pc[i] = "headings"
    /\ LET hs == site[i].headings
       IN  IF hs.raises
           THEN /\ ran' = [ran EXCEPT ![i] = @ \cup {"headings", "headings_failed"}]
                /\ UNCHANGED content_data
           ELSE /\ ran' = [ran EXCEPT ![i] = @ \cup {"headings"}]
                /\ content_data' = [content_data EXCEPT
                                      ![i].headings = CollectHeadings(hs.items, 1, @)]
    /\ pc' = [pc EXCEPT ![i] = "close"]
    /\ UNCHANGED <<max_concurrent_pages, semaphore, search_results, site, mpc, task_result,
                   done_order, open_pages, combined_results>>
    /\ UNCHANGED <<searchVars, cascVars, runVars>>

\* finally: await page.close(); return content_data -- and the exit of the
\* `async with`, which releases the slot.  An exception of page.close()
\* replaces the return value.
ClosePage(i) ==
    /\ mpc = "gather"
    /\ pc[i] = "close"
    /\ ran' = [ran EXCEPT ![i] = @ \cup {"close"}]
    /\ IF site[i].close = None
       THEN /\ pc' = [pc EXCEPT ![i] = "done"]
            /\ task_result' = [task_result EXCEPT ![i] = Returned(content_data[i])]
            /\ open_pages' = open_pages \ {i}
       ELSE /\ pc' = [pc EXCEPT ![i] = "raised"]
            /\ task_result' = [task_result EXCEPT ![i] = Raised(site[i].close[1])]
            /\ UNCHANGED open_pages
    /\ done_order' = Append(done_order, i)
    /\ semaphore' = semaphore + 1
    /\ UNCHANGED <<max_concurrent_pages, search_results, site, mpc, content_data,
                   combined_results>>
    /\ UNCHANGED <<searchVars, cascVars, runVars>>

(* scrape_search_results *)

\* `if not search_results: return []`, else one coroutine per result, all
\* handed to asyncio.gather
ScrapeStart ==
    /\ mpc = "start"
    /\ IF search_results = <<>>
       THEN mpc' = "returned" /\ pc' = pc
       ELSE mpc' = "gather" /\ pc' = [i \in Tasks |-> "wait"]
    /\ combined_results' = <<>>
    /\ UNCHANGED <<max_concurrent_pages, semaphore, search_results, site, content_data, ran,
                   task_result, done_order, open_pages>>
    /\ UNCHANGED <<searchVars, cascVars, runVars>>

\* gather(..., return_exceptions=True) completes when every task has finished
GatherDoneOnFirstException(p) ==
    (\A i \in DOMAIN p : p[i] \in {"done", "raised"}) \/ (\E i \in DOMAIN p : p[i] = "raised")
GatherDone(p) == \A i \in DOMAIN p : p[i] \in {"done", "raised"}

\* ... and its result list is in the order of the awaitables passed in
GatherResultsAsCompleted(tr, order) ==
    [j \in DOMAIN tr |-> IF j <= Len(order) THEN tr[order[j]] ELSE Pending]
GatherResults(tr, order) == [j \in DOMAIN tr |-> tr[j]]

\* the placeholder built for `isinstance(content_result, Exception)`
ErrorPlaceholder(search_result, msg) ==
    [url |-> search_result.url,
     title |-> search_result.title,
     error |-> Some(msg),
     scraped_at |-> "now"]

\* {**a, **b}
DictMergeLeftWins(a, b) ==
    [k \in (DOMAIN a) \cup (DOMAIN b) |-> IF k \in DOMAIN a THEN a[k] ELSE b[k]]
DictMerge(a, b) ==
    [k \in (DOMAIN a) \cup (DOMAIN b) |-> IF k \in DOMAIN b THEN b[k] ELSE a[k]]

\* one iteration of the merge loop
Combine(search_result, content_result) ==
    IF content_result.kind = "exception"
    THEN DictMerge(search_result, ErrorPlaceholder(search_result, content_result.msg))
    ELSE IF content_result.kind = "value"
    THEN DictMerge(search_result, content_result.value)
    ELSE search_result

\* content_results = await asyncio.gather(...) returns; the merge loop;
\* return combined_results
ScrapeFinish ==
    /\ mpc = "gather"
    /\ GatherDone(pc)
    /\ LET content_results == GatherResults(task_result, done_order)
       IN  combined_results' =
               [j \in 1..Min(Len(search_results), Len(content_results)) |->
                   Combine(search_results[j], content_results[j])]
    /\ mpc' = "returned"
    /\ UNCHANGED <<max_concurrent_pages, semaphore, search_results, site, pc, content_data, ran,
                   task_result, done_order, open_pages>>
    /\ UNCHANGED <<searchVars, cascVars, runVars>>

InitScrape ==
    /\ max_concurrent_pages \in 0..MaxN
    /\ semaphore = max_concurrent_pages
    /\ \E k \in 0..MaxK :
          /\ search_results = [i \in 1..k |-> SampleResult(i)]
          /\ site \in [1..k -> ScrapeSites]
          /\ pc = [i \in 1..k |-> "created"]
          /\ content_data = [i \in 1..k |-> None]
          /\ ran = [i \in 1..k |-> {}]
          /\ task_result = [i \in 1..k |-> Pending]
    /\ mpc = "start"
    /\ done_order = <<>>
    /\ open_pages = {}
    /\ combined_results = <<>>
    /\ SearchIdle
    /\ CascIdle
    /\ RunIdle

NextScrape ==
    \/ ScrapeStart
    \/ \E i \in Tasks : Acquire(i)
    \/ \E i \in Tasks : NewPage(i)
    \/ \E i \in Tasks : Goto(i)
    \/ \E i \in Tasks : Delay(i)
    \/ \E i \in Tasks : Settle(i)
    \/ \E i \in Tasks : ExtractText(i)
    \/ \E i \in Tasks : ExtractMeta(i)
    \/ \E i \in Tasks : ExtractHeadings(i)
    \/ \E i \in Tasks : ClosePage(i)
    \/ ScrapeFinish

SpecScrape == InitScrape /\ [][NextScrape]_vars

\* the event loop keeps running a coroutine that can take a step, and every
\* awaited page operation terminates
SpecScrapeFair == SpecScrape /\ WF_vars(NextScrape)

(* extract_page_content on its own: one invocation, many kinds of page *)

\* body texts: empty, blanks only, and 1 .. 401 one-letter words with and
\* without blanks around them
WordCounts == {1, 2, 199, 200, 201, 399, 400, 401}

BodyTexts ==
    {EmptyText, Text("body", 3, 0, 0, 0, 0)}
        \cup {Text("body", l, w, 1, 1, t) : l \in {0, 1}, w \in WordCounts, t \in {0, 2}}

\* a body of 50 characters
Body50 == Text("body", 0, 10, 4, 1, 1)

\* what a main-content selector finds: no element, or an element whose
\* innerText has 200, 201 or 350 characters
Region(sel, choice) ==
    IF choice = "none" THEN None
    ELSE IF choice = "r200" THEN Some(Text(sel, 0, 40, 4, 1, 1))
    ELSE IF choice = "r201" THEN Some(Text(sel, 0, 40, 4, 1, 2))
    ELSE Some(Text(sel, 1, 50, 6, 1, 0))

RegionSites ==
    {[SiteOk EXCEPT !.evaluate.regions = [k \in 1..7 |-> Region(main_selectors[k], c[k])],
                    !.evaluate.body = Body50] :
        c \in [1..7 -> {"none", "r200", "r201"}]}
    \cup {[SiteOk EXCEPT !.evaluate.regions = [k \in 1..7 |-> Region(main_selectors[k], c[k])],
                         !.evaluate.body = b] :
            c \in {<<"r350", "none", "none", "none", "none", "none", "none">>,
                   <<"none", "r200", "none", "r350", "none", "none", "r201">>},
            b \in {Body50, EmptyText}}

TextSites == {[SiteOk EXCEPT !.evaluate.body = b] : b \in BodyTexts}

H_a == Heading(FALSE, "h1", Some(Text("h-a", 1, 1, 4, 0, 1)))
H_raises == Heading(TRUE, "h2", Some(Text("h-b", 0, 1, 3, 0, 0)))
H_c == Heading(FALSE, "h3", Some(Text("h-c", 0, 2, 3, 1, 0)))
H_blank == Heading(FALSE, "h2", Some(Text("h-d", 2, 0, 0, 0, 0)))
H_null == Heading(FALSE, "h4", None)
H_long == Heading(FALSE, "h2", Some(Text("h-e", 0, 1, 250, 0, 0)))

HeadingOutcomes ==
    {[raises |-> TRUE, items |-> <<>>]}
        \cup {[raises |-> FALSE, items |-> hs] :
                hs \in {<<>>, <<H_a>>, <<H_raises>>, <<H_a, H_raises, H_c>>,
                        <<H_blank, H_null, H_long, H_c>>, [k \in 1..21 |-> H_a]}}

MetaOutcomes ==
    {[raises |-> TRUE, content |-> None], [raises |-> FALSE, content |-> None],
     [raises |-> FALSE, content |-> Some("")], [raises |-> FALSE, content |-> Some("about")]}

DegradedSites ==
    {[SiteOk EXCEPT !.goto = g, !.settle_timeout = st, !.meta = m, !.headings = h] :
        g \in {GotoStatus(200), GotoStatus(399), GotoNoResponse},
        st \in BOOLEAN, m \in MetaOutcomes, h \in HeadingOutcomes}

ExtractSites == ScrapeSites \cup TextSites \cup RegionSites \cup DegradedSites

InitExtract ==
    /\ max_concurrent_pages = 1
    /\ semaphore = max_concurrent_pages
    /\ search_results = <<SampleResult(1)>>
    /\ site \in [1..1 -> ExtractSites]
    /\ pc = <<"created">>
    /\ content_data = <<None>>
    /\ ran = <<{}>>
    /\ task_result = <<Pending>>
    /\ mpc = "start"
    /\ done_order = <<>>
    /\ open_pages = {}
    /\ combined_results = <<>>
    /\ SearchIdle
    /\ CascIdle
    /\ RunIdle

SpecExtract == InitExtract /\ [][NextScrape]_vars

(* scrape_search_results on search results that carry further keys *)

\* the dict d with d[key] = val added
WithKey(d, key, val) == [k \in (DOMAIN d) \cup {key} |-> IF k = key THEN val ELSE d[k]]

\* search_results is a List[Dict[str, Any]]: a record of search_google, one
\* with a key no content record has, and one with keys a content record and
\* the placeholder have too
ResultWithRank(i) == WithKey(SampleResult(i), "rank", i)
ResultWithStamp(i) ==
    WithKey(WithKey(SampleResult(i), "scraped_at", "earlier"), "error", Some("stale"))
ResultKinds(i) == {SampleResult(i), ResultWithRank(i), ResultWithStamp(i)}

MergeSites == {SiteOk, SiteHttp404, SiteNoPage, SiteCloseFails}

InitMerge ==
    /\ max_concurrent_pages \in 1..MaxN
    /\ semaphore = max_concurrent_pages
    /\ \E k \in 0..MaxK :
          /\ search_results \in {s \in [1..k -> UNION {ResultKinds(i) : i \in 1..k}] :
                                    \A i \in 1..k : s[i] \in ResultKinds(i)}
          /\ site \in [1..k -> MergeSites]
          /\ pc = [i \in 1..k |-> "created"]
          /\ content_data = [i \in 1..k |-> None]
          /\ ran = [i \in 1..k |-> {}]
          /\ task_result = [i \in 1..k |-> Pending]
    /\ mpc = "start"
    /\ done_order = <<>>
    /\ open_pages = {}
    /\ combined_results = <<>>
    /\ SearchIdle
    /\ CascIdle
    /\ RunIdle

SpecMerge == InitMerge /\ [][NextScrape]_vars

(* ------------------------------ Claims ------------------------------ *)

\* the tasks inside the `async with self.semaphore` block
InsideGate == {i \in Tasks : pc[i] \in {"new_page", "goto", "delay", "settle", "text", "meta",
                                        "headings", "close"}}

\* C1: in every reachable state of scrape_search_results at most
\* max_concurrent_pages invocations of extract_page_content are inside the
\* semaphore-guarded section, whatever the interleaving, early returns and
\* failures.
C1_AtMostNInside == Cardinality(InsideGate) <= max_concurrent_pages

\* C1 witness: the gate is full and another invocation is queued behind it.
C1_Witness ==
    /\ Cardinality(InsideGate) = max_concurrent_pages
    /\ \E i \in Tasks : pc[i] = "wait"

ContentFields ==
    {"text_content", "word_count", "reading_time", "headings", "meta_description", "status_code"}

\* the task failed: it raised, or it returned a record carrying an error
Failed(i) ==
    \/ task_result[i].kind = "exception"
    \/ task_result[i].kind = "value" /\ task_result[i].value.error # None

\* C2: scrape_search_results returns exactly one combined record per input,
\* and the i-th one carries the url and title of the i-th input and the
\* outcome (returned record or raised failure) of the i-th invocation,
\* whatever the completion order and whichever invocations fail.
C2_OnePerInputInOrder ==
    mpc = "returned" =>
        /\ Len(combined_results) = Len(search_results)
        /\ \A i \in Tasks :
              /\ combined_results[i].url = search_results[i].url
              /\ combined_results[i].title = search_results[i].title
              /\ combined_results[i].position = i
              /\ task_result[i].kind = "exception" =>
                     /\ combined_results[i].error = Some(task_result[i].msg)
                     /\ ContentFields \cap DOMAIN combined_results[i] = {}
              /\ task_result[i].kind = "value" =>
                     \A k \in DOMAIN task_result[i].value :
                         /\ k \in DOMAIN combined_results[i]
                         /\ combined_results[i][k] = task_result[i].value[k]

\* C2 witness: a batch of at least two returned although the invocations
\* finished in another order than they were passed in, one of them failing.
C2_Witness ==
    /\ mpc = "returned"
    /\ Len(search_results) >= 2
    /\ done_order[1] # 1
    /\ \E i \in Tasks : Failed(i)

\* C3: when scrape_search_results returns, every invocation was admitted,
\* ran to its own completion and has its outcome captured, also the siblings
\* of an invocation that raised or returned an error record.
C3_NoSiblingSkipped ==
    mpc = "returned" =>
        \A i \in Tasks :
            /\ "new_page" \in ran[i]
            /\ pc[i] \in {"done", "raised"}
            /\ task_result[i].kind \in {"value", "exception"}
            /\ \E n \in 1..Len(done_order) : done_order[n] = i

\* C3 witness: an invocation failed first and a sibling that finished after
\* it returned a record without error.
C3_Witness ==
    /\ mpc = "returned"
    /\ \E m, n \in 1..Len(done_order) :
          /\ m < n
          /\ Failed(done_order[m])
          /\ task_result[done_order[m]].kind = "exception"
          /\ ~Failed(done_order[n])

\* C4: every combined record has a complete content payload or a non-empty
\* error message, whatever the message of a raised exception is.
C4_PayloadOrError ==
    mpc = "returned" =>
        \A i \in 1..Len(combined_results) :
            \/ ContentFields \subseteq DOMAIN combined_results[i]
            \/ /\ "error" \in DOMAIN combined_results[i]
               /\ combined_results[i].error # None
               /\ combined_results[i].error[1] # ""

\* C10: once navigation answered with a status >= 400, the record has
\* error = "HTTP <status>", status_code = that status, word_count = 0,
\* reading_time = 0, empty text_content and headings, none of the later steps
\* (delay, settle wait, text, meta description, headings) runs, and that
\* record is what the invocation returns.
C10_HttpErrorEarlyReturn ==
    \A i \in Tasks :
        ("goto" \in ran[i] /\ site[i].goto.kind = "status" /\ site[i].goto.status >= 400) =>
            /\ content_data[i].error = Some("HTTP " \o ToString(site[i].goto.status))
            /\ content_data[i].status_code = Some(site[i].goto.status)
            /\ content_data[i].word_count = 0
            /\ content_data[i].reading_time = 0
            /\ content_data[i].text_content = EmptyText
            /\ content_data[i].headings = <<>>
            /\ ran[i] \cap {"delay", "settle", "text", "meta", "headings"} = {}
            /\ pc[i] \in {"close", "done", "raised"}
            /\ pc[i] = "done" => task_result[i] = Returned(content_data[i])

\* C10 witness: an invocation whose navigation answered 404 has returned.
C10_Witness ==
    \E i \in Tasks :
        /\ pc[i] = "done"
        /\ site[i].goto = GotoStatus(404)
        /\ task_result[i].value.error = Some("HTTP 404")

\* the raw result nodes that survive the title/url validation and the
\* exclusion filter
Qualifies(node) == ~node.raises /\ Accepted(Resolve(node))
QualifyingAmong(nodes, n) == Cardinality({k \in 1..Min(n, Len(nodes)) : Qualifies(nodes[k])})

\* C5: the list built by search_google never has more than max_results
\* records and the position of its j-th record is j (1..len, dense, in order),
\* whichever nodes were skipped.
C5_PositionsDense ==
    /\ Len(results) <= max_results
    /\ \A j \in 1..Len(results) : results[j].position = j

\* C5 witness: search_google returned at least two records after skipping a
\* node that precedes an accepted one.
C5_Witness ==
    /\ spc = "done"
    /\ Len(results) >= 2
    /\ ~Qualifies(RawNodes(doc)[1])

\* C6 (as claimed): the output length is min(max_results, number of
\* qualifying nodes among ALL raw nodes).
C6_CapBoundsAccepted ==
    spc = "done" =>
        Len(results) = Min(max_results, QualifyingAmong(RawNodes(doc), Len(RawNodes(doc))))

\* C6 (amended): the cap bounds the raw nodes examined: the output length is
\* the number of qualifying nodes among the first max_results raw nodes.
C6_CapBoundsExamined ==
    spc = "done" => Len(results) = QualifyingAmong(RawNodes(doc), max_results)

\* C6 witness: a node inside the cap is rejected while a qualifying node lies
\* beyond the cap, so fewer than min(max_results, qualifying) are returned.
C6_Witness ==
    /\ spc = "done"
    /\ max_results >= 1
    /\ Len(results) < max_results
    /\ Len(results) < QualifyingAmong(RawNodes(doc), Len(RawNodes(doc)))

\* C7: every record returned by search_google has a non-empty trimmed title.
C7_TitleNonEmpty ==
    \A j \in 1..Len(results) : results[j].title # <<>>

\* an absolute http/https URL: scheme http or https and a non-empty authority
IsAbsoluteHttp(u) == UrlScheme(u) \in {S_http, S_https} /\ Netloc(u) # <<>>

\* C8: every record's url is an absolute http/https URL and its domain does
\* not match the exclusion set.
C8_UrlAbsoluteDomainAllowed ==
    \A j \in 1..Len(results) :
        /\ IsAbsoluteHttp(results[j].url)
        /\ ~\E x \in Exclusions : Contains(results[j].domain, x)

\* the acceptance predicate of a cascade, as the specification words it
QualifiesAs(kind, m) ==
    /\ m.n > 0
    /\ m.val # None
    /\ IF kind = "url" THEN StartsWith(m.val[1], S_http) ELSE Strip(m.val[1]) # <<>>

\* C9: when some candidate of a cascade qualifies, the cascade resolves to the
\* value of the earliest qualifying candidate, and no candidate after it is
\* consulted: replacing the later candidates' matches by any others (a
\* permutation included) resolves to the same value.
C9_EarliestQualifying ==
    cout # None =>
        LET kind == cin.kind
            cands == cin.cands
            Q == {k \in 1..Len(cands) : QualifiesAs(kind, cands[k])}
        IN  Q # {} =>
                LET j == CHOOSE k \in Q : \A m \in Q : k <= m
                IN  /\ cout[1] = cands[j].val
                    /\ \A other \in [1..Len(cands) -> CandidateValues(kind)] :
                          (\A k \in 1..j : other[k] = cands[k])
                              => Cascade(kind, other) = cout[1]

\* C9 witness: a cascade ran on candidates of which the first qualifying one
\* is neither the first nor the last, and a later candidate qualifies with a
\* different value.
C9_Witness ==
    /\ cout # None
    /\ \E j \in 2..(Len(cin.cands) - 1) :
          /\ QualifiesAs(cin.kind, cin.cands[j])
          /\ \A k \in 1..(j - 1) : ~QualifiesAs(cin.kind, cin.cands[k])
          /\ \E m \in (j + 1)..Len(cin.cands) :
                QualifiesAs(cin.kind, cin.cands[m]) /\ cin.cands[m].val # cin.cands[j].val

\* C11: when navigation fails, the record carries a navigation-failure
\* description in error and every other field at its initial default, none of
\* the later steps (delay, settle wait, text, meta description, headings)
\* runs, and that record is what the invocation returns.
C11_NavigationFailureEarlyReturn ==
    \A i \in Tasks :
        ("goto" \in ran[i] /\ site[i].goto.kind = "raise") =>
            /\ content_data[i] =
                   [NewContentData(search_results[i].url, search_results[i].title)
                       EXCEPT !.error = Some("Navigation failed: " \o site[i].goto.msg)]
            /\ ran[i] \cap {"delay", "settle", "text", "meta", "headings"} = {}
            /\ pc[i] \in {"close", "done", "raised"}
            /\ pc[i] = "done" => task_result[i] = Returned(content_data[i])

\* C11 witness: an invocation whose navigation raised has returned its record.
C11_Witness ==
    \E i \in Tasks :
        /\ pc[i] = "done"
        /\ site[i].goto.kind = "raise"
        /\ task_result[i].value.status_code = None
        /\ task_result[i].value.error # None

\* C12: extract_page_content never raises to its caller: whichever step
\* fails (opening the page, navigation, text extraction, closing the page,
\* ...), the invocation finishes by returning a record, and a failure is
\* recorded in its error field.
C12_NeverRaises ==
    \A i \in Tasks :
        /\ pc[i] # "raised"
        /\ task_result[i].kind # "exception"
        /\ (pc[i] = "done" /\ (site[i].new_page # None \/ site[i].close # None
                               \/ site[i].goto.kind = "raise" \/ site[i].evaluate.raises # None))
               => task_result[i].value.error # None

\* C13: when the search page yields no results (no container selector
\* matches, no node selector yields a node, or every examined node is
\* rejected), search_google returns an empty list, and run_search_and_scrape
\* goes from there to its cleanup and finishes without entering
\* scrape_search_results: no content extraction is started.
C13_NoResultsNoExtraction ==
    /\ spc \in {"no_container", "no_nodes"} => results = <<>>
    /\ (spc = "done" /\ QualifyingAmong(RawNodes(doc), max_results) = 0) => results = <<>>
    /\ (SearchExited /\ results = <<>> /\ rpc # "search") =>
           /\ rpc \in {"cleanup", "finished"}
           /\ mpc = "idle"
           /\ pc = <<>>
           /\ open_pages = {}
    /\ rpc = "finished" => results = <<>>

\* C13 witness: the run has finished after a search whose nodes, at least
\* two, were all rejected.
C13_Witness ==
    /\ rpc = "finished"
    /\ spc = "done"
    /\ idx >= 2
    /\ results = <<>>

C15_SnippetNeverEmpty ==
    \A j \in 1..Len(results) :
        /\ results[j].snippet # <<>>
        /\ results[j].snippet = Strip(results[j].snippet)

\* the url's resolved domain matches the exclusion set
DomainExcluded(u) == \E x \in Exclusions : Contains(Netloc(u), x)

\* C16: an examined node with a title and an http(s) url is rejected by the
\* exclusion filter if and only if the domain of its url matches the
\* exclusion set; an exclusion string in the path or query does not reject it.
C16_RejectedIffDomainExcluded ==
    \A k \in 1..idx :
        LET node == RawNodes(doc)[k]
            l == Resolve(node)
        IN  (~node.raises /\ ~Incomplete(l.title, l.url)) =>
                (DomainExcluded(l.url[1]) <=>
                    ~\E j \in 1..Len(results) :
                        results[j].url = l.url[1] /\ results[j].title = Strip(l.title[1]))

\* the invocations that hold a content_data record
Started == {i \in Tasks : "new_page" \in ran[i] /\ site[i].new_page = None}

\* C17: in every record of extract_page_content, word_count is the number of
\* whitespace-delimited tokens of text_content, reading_time is
\* max(1, word_count // 200) when word_count > 0 and 0 otherwise, so that
\* reading_time = 0 exactly when word_count = 0; both are 0 after a
\* navigation failure or an HTTP error status.
C17_WordCountReadingTime ==
    \A i \in Started :
        LET cd == content_data[i]
            floor == cd.word_count \div 200
        IN  /\ cd.word_count = cd.text_content.words
            /\ cd.reading_time =
                   IF cd.word_count > 0 THEN (IF floor > 1 THEN floor ELSE 1) ELSE 0
            /\ cd.reading_time = 0 <=> cd.word_count = 0
            /\ ("text" \in ran[i] /\ site[i].evaluate.raises = None) =>
                   cd.word_count = MainContent(site[i].evaluate.regions, site[i].evaluate.body).words
            /\ ("goto" \in ran[i] /\ (site[i].goto.kind = "raise" \/ site[i].goto.status >= 400)) =>
                   cd.word_count = 0 /\ cd.reading_time = 0

\* C17 witness: a returned record of 401 words with reading_time 2.
C17_Witness ==
    \E i \in Started :
        /\ pc[i] = "done"
        /\ content_data[i].word_count = 401
        /\ content_data[i].reading_time = 2

\* the invocations whose page.evaluate script has returned
Evaluated == {i \in Started : "text" \in ran[i] /\ site[i].evaluate.raises = None}

\* the indices of the main-content selectors whose region is longer than 200
LongRegions(i) ==
    {k \in 1..Len(main_selectors) :
        /\ site[i].evaluate.regions[k] # None
        /\ TextLen(site[i].evaluate.regions[k][1]) > 200}

\* C18: text_content is the (stripped) text of the first selector, in the
\* order main, article, .content, .post, .article-body, .entry-content,
\* .post-content, whose region is strictly longer than 200 characters, and
\* the (stripped) body text only when no selector has such a region.
C18_MainContentFirstQualifying ==
    \A i \in Evaluated :
        LET ev == site[i].evaluate
            Q == LongRegions(i)
            first == CHOOSE k \in Q : \A j \in Q : k <= j
            chosen == IF Q = {} THEN ev.body ELSE ev.regions[first][1]
        IN  /\ content_data[i].text_content =
                   IF chosen.words = 0 THEN EmptyText
                   ELSE [chosen EXCEPT !.lead = 0, !.trail = 0]
            /\ (Q # {} /\ chosen.words > 0) =>
                   content_data[i].text_content.id = main_selectors[first]
            /\ (content_data[i].text_content.id = "body") => Q = {}

\* C18 witness: a region of exactly 200 characters is passed over, a later
\* region of 350 characters is returned, and the body has 50 characters.
C18_Witness ==
    \E i \in Evaluated :
        LET ev == site[i].evaluate
        IN  /\ pc[i] = "done"
            /\ TextLen(ev.body) = 50
            /\ \E j, k \in 1..Len(main_selectors) :
                   /\ j < k
                   /\ ev.regions[j] # None /\ TextLen(ev.regions[j][1]) = 200
                   /\ ev.regions[k] # None /\ TextLen(ev.regions[k][1]) = 350
                   /\ \A m \in 1..(k - 1) : m \notin LongRegions(i)
                   /\ content_data[i].text_content.id = main_selectors[k]

\* the invocations whose navigation and text extraction went through
PastExtraction ==
    {i \in Evaluated : site[i].goto.kind # "raise" /\ site[i].goto.status < 400}

\* the headings a page yields: of its first 20, those whose extraction does
\* not fail and whose text is non-blank, as level and trimmed text of at most
\* 200 characters
HeadingKept(h) == ~h.raises /\ h.text # None /\ h.text[1].words > 0
HeadingEntry(h) ==
    LET t == [h.text[1] EXCEPT !.lead = 0, !.trail = 0]
    IN  [level |-> h.level, text |-> IF TextLen(t) > 200 THEN [t EXCEPT !.wlen = 200] ELSE t]
ExpectedHeadings(i) ==
    LET items == site[i].headings.items
        first20 == SubSeq(items, 1, IF Len(items) < 20 THEN Len(items) ELSE 20)
        kept == SelectSeq(first20, HeadingKept)
    IN  IF site[i].headings.raises THEN <<>>
        ELSE [k \in 1..Len(kept) |-> HeadingEntry(kept[k])]

\* C19: a settle timeout, a failing meta-description lookup and a failing
\* heading extraction (the whole lookup or one heading) never set error; the
\* later steps still run, and the record is returned with error unset, the
\* extracted text and word count kept, and every heading that did not fail.
C19_BestEffortStepsNonFatal ==
    /\ \A i \in Started :
           content_data[i].error # None =>
               \/ site[i].goto.kind = "raise"
               \/ site[i].goto.status >= 400
               \/ ("text" \in ran[i] /\ site[i].evaluate.raises # None)
    /\ \A i \in PastExtraction :
           LET cd == content_data[i]
               text == MainContent(site[i].evaluate.regions, site[i].evaluate.body)
           IN  /\ cd.text_content = StripText(text)
               /\ cd.word_count = text.words
               /\ pc[i] \in {"done", "raised"} =>
                      {"settle", "text", "meta", "headings", "close"} \subseteq ran[i]
               /\ pc[i] = "done" =>
                      /\ task_result[i] = Returned(cd)
                      /\ cd.error = None
                      /\ cd.headings = ExpectedHeadings(i)
                      /\ site[i].meta.raises => cd.meta_description = ""

\* C19 witness: a returned record after a settle timeout, a failed meta
\* lookup and a failing heading between two good ones, holding both good
\* headings and a non-empty text.
C19_Witness ==
    \E i \in PastExtraction :
        /\ pc[i] = "done"
        /\ {"settle_timeout", "meta_failed"} \subseteq ran[i]
        /\ \E k \in 2..(Len(site[i].headings.items) - 1) :
               /\ site[i].headings.items[k].raises
               /\ HeadingKept(site[i].headings.items[k - 1])
               /\ HeadingKept(site[i].headings.items[k + 1])
        /\ Len(content_data[i].headings) = 2
        /\ content_data[i].word_count > 0
        /\ content_data[i].error = None

\* C19 witness for the whole heading lookup failing.
C19_WitnessWholeLookup ==
    \E i \in PastExtraction :
        /\ pc[i] = "done"
        /\ "headings_failed" \in ran[i]
        /\ content_data[i].word_count > 0
        /\ content_data[i].error = None

\* the nodes the loop of search_google has gone through so far
Processed == SubSeq(Examined(RawNodes(doc), max_results), 1, idx)

\* the record search_google builds from a node, apart from its position
RecordOf(node) ==
    LET l == Resolve(node)
    IN  [title |-> Strip(l.title[1]),
         url |-> l.url[1],
         snippet |-> IF Truthy(l.snippet) THEN Strip(l.snippet[1]) ELSE Placeholder,
         domain |-> Netloc(l.url[1]),
         search_query |-> query]

\* C20: a node whose extraction raises is skipped and nothing else: at every
\* point of the loop the list holds exactly the records of the qualifying
\* nodes gone through so far, in order and numbered 1.., whether or not
\* raising nodes lie between them; the loop goes on to the last node within
\* the cap and search_google returns normally.
C20_NodeErrorSkipsOnlyThatNode ==
    LET kept == SelectSeq(Processed, Qualifies)
    IN  /\ Len(results) = Len(kept)
        /\ \A j \in 1..Len(results) :
               /\ results[j].position = j
               /\ [f \in DOMAIN results[j] \ {"position"} |-> results[j][f]] = RecordOf(kept[j])
        /\ idx > 0 => spc \in {"loop", "done"}
        /\ spc = "done" => idx = Min(max_results, Len(RawNodes(doc)))

\* C20 witness: search_google returned two records, numbered 1 and 2, from
\* two qualifying nodes with a raising node between them.
C20_Witness ==
    /\ spc = "done"
    /\ Len(results) = 2
    /\ results[2].position = 2
    /\ \E k \in 2..(idx - 1) :
           /\ Processed[k].raises
           /\ \E a \in 1..(k - 1) : Qualifies(Processed[a])
           /\ \E b \in (k + 1)..idx : Qualifies(Processed[b])

\* the keys of a record of search_google other than url and title
SearchOnlyFields == {"position", "snippet", "domain", "search_query"}

\* what the merge loop pairs with the i-th search result: the returned record,
\* or for a raised failure the placeholder with the result's url and title,
\* the failure message and a time stamp
MergedContent(i) ==
    IF task_result[i].kind = "exception"
    THEN [url |-> search_results[i].url,
          title |-> search_results[i].title,
          error |-> Some(task_result[i].msg),
          scraped_at |-> "now"]
    ELSE task_result[i].value

\* C21: every combined record has the keys of its search result and of its
\* content record (or placeholder); position, snippet, domain and
\* search_query are the search result's, url and title equal the search
\* result's, a key of the content record has the content record's value, and
\* every other key of the search result keeps its value; the placeholder of
\* a raised failure carries the failure message in error.
C21_MergeKeepsSearchFields ==
    mpc = "returned" =>
        \A i \in Tasks :
            LET sr == search_results[i]
                cr == combined_results[i]
                content == MergedContent(i)
            IN  /\ DOMAIN cr = (DOMAIN sr) \cup (DOMAIN content)
                /\ \A k \in SearchOnlyFields : cr[k] = sr[k]
                /\ cr.url = sr.url
                /\ cr.title = sr.title
                /\ \A k \in DOMAIN cr :
                       cr[k] = IF k \in DOMAIN content THEN content[k] ELSE sr[k]
                /\ task_result[i].kind = "exception" =>
                       /\ cr.error = Some(task_result[i].msg)
                       /\ DOMAIN cr = (DOMAIN sr) \cup {"url", "title", "error", "scraped_at"}

\* C21 witness: a returned batch in which a raised failure was merged into a
\* search result that had error and scraped_at keys of its own, and a
\* returned record into a search result with a key no content record has.
C21_Witness ==
    /\ mpc = "returned"
    /\ \E i \in Tasks :
           /\ task_result[i].kind = "exception"
           /\ search_results[i] = ResultWithStamp(i)
           /\ combined_results[i].error = Some(task_result[i].msg)
           /\ combined_results[i].error # search_results[i].error
           /\ combined_results[i].scraped_at # search_results[i].scraped_at
    /\ \E j \in Tasks :
           /\ task_result[j].kind = "value"
           /\ search_results[j] = ResultWithRank(j)
           /\ combined_results[j].rank = j

\* every queued invocation is admitted and completes, scrape_search_results
\* returns, and all slots are free from then on
AllCompleteSlotsFree ==
    /\ <>(mpc = "returned")
    /\ [](mpc = "returned" => semaphore = max_concurrent_pages)
    /\ \A i \in 1..MaxK :
           (i \in Tasks /\ pc[i] = "wait") ~> (i \in Tasks /\ pc[i] \in {"done", "raised"})

\* C22: every invocation of extract_page_content releases its slot on every
\* exit path, so that, every page operation terminating, every queued
\* invocation is eventually admitted, all invocations complete,
\* scrape_search_results returns and all N slots are free again, also when
\* there are more invocations than slots.
C22_AllCompleteSlotsFree ==
    /\ [](semaphore = max_concurrent_pages - Cardinality(InsideGate))
    /\ AllCompleteSlotsFree

\* C22 for a ceiling of at least one slot.
C22_PositiveCeilingCompletes ==
    max_concurrent_pages >= 1 =>
        /\ [](semaphore = max_concurrent_pages - Cardinality(InsideGate))
        /\ AllCompleteSlotsFree

\* a batch larger than a positive ceiling returned with all slots free after
\* one invocation raised and another returned an error record
C22_PositiveCeilingWitness ==
    /\ mpc = "returned"
    /\ max_concurrent_pages >= 1
    /\ Len(search_results) > max_concurrent_pages
    /\ semaphore = max_concurrent_pages
    /\ \E i, j \in Tasks :
           /\ task_result[i].kind = "exception"
           /\ task_result[j].kind = "value" /\ task_result[j].value.error # None

\* the invocations that hold a page: between a successful new_page() and the
\* end of page.close()
HoldingPage == {i \in Tasks : pc[i] \in {"goto", "delay", "settle", "text", "meta", "headings", "close"}}

\* the invocations whose page.close() raised
CloseFailed == {i \in Tasks : "close" \in ran[i] /\ site[i].close # None}

\* C23: a content page is open only while its own invocation is inside the
\* admission gate (opened after admission, closed before the slot is
\* released, on every exit path); hence at most N content pages are open at
\* any instant and none is open once scrape_search_results has returned.
C23_PagesOpenOnlyInsideGate ==
    /\ open_pages \subseteq InsideGate
    /\ Cardinality(open_pages) <= max_concurrent_pages
    /\ mpc = "returned" => open_pages = {}

\* C23 apart from the pages whose page.close() raised.
C23_OpenOnlyInsideUnlessCloseFailed ==
    /\ open_pages \ CloseFailed = HoldingPage
    /\ HoldingPage \subseteq InsideGate
    /\ Cardinality(open_pages \ CloseFailed) <= max_concurrent_pages
    /\ mpc = "returned" => open_pages = CloseFailed

\* a batch larger than the ceiling returned after both early returns, with
\* no page left open
C23_EarlyReturnsWitness ==
    /\ mpc = "returned"
    /\ Len(search_results) > max_concurrent_pages
    /\ open_pages = {}
    /\ \E i, j \in Tasks :
           /\ site[i].goto.kind = "raise"
           /\ site[j].goto.kind = "status" /\ site[j].goto.status >= 400
           /\ {"new_page", "close"} \subseteq ran[i] \cap ran[j]

====
